---- MODULE Spec2Model ----
(***************************************************************************)
(* A model of src/script.js, the client-side script of the portfolio page. *)
(* Every controller of the script is a group of variables and one action   *)
(* per event handler or timer callback.  The controllers touch disjoint    *)
(* parts of the page, so each is explored by its own specification, which  *)
(* leaves the variables of the other controllers at their initial values.  *)
(***************************************************************************)
EXTENDS Integers, Sequences, FiniteSets, TLC

VARIABLES
    \* ---- the page: markup read by Navigation (never written by the script)
    sections,        \* document.querySelectorAll('section[id]'), document order
    href,            \* link -> its href attribute
    \* ---- Navigation / ScrollToTop: scroll-driven state
    scrollY,         \* window.scrollY
    scrollPending,   \* a scroll event is queued and not yet dispatched
    linkActive,      \* link -> its classList contains 'active'
    navbarScrolled,  \* navbar.classList contains 'scrolled'
    btnOpacity,      \* ScrollToTop button.style.opacity
    btnVisibility,   \* ScrollToTop button.style.visibility
    navInThrottle,   \* inThrottle of the throttle closure of line 76
    topInThrottle,   \* inThrottle of the throttle closure of line 453
    navHandledY,     \* history: scrollY read by the last run of line 77-78
    updatedY,        \* history: scrollY read by the last run of updateActiveLink
    topHandledY,     \* history: scrollY read by the last run of line 454
    \* ---- a closure returned by throttle(func, limit), lines 19-28
    thrLimit,        \* limit
    thrInThrottle,   \* inThrottle
    thrTimers,       \* pending timers set by line 25
    thrSinceRun,     \* history: time since func last ran, saturating at limit
    thrRuns,         \* history: the runs of func, [arg, gap]
    thrLog,          \* history: the calls of the closure, [arg, since, ran]
    \* ---- a closure returned by debounce(func, wait), lines 7-17
    debWait,         \* wait
    debTimeout,      \* timeout: id of the timer set last, None before the first
    debTimers,       \* pending timers set by line 15, each holding its args
    debSinceCall,    \* history: time since the last call, saturating at wait
    debRuns,         \* history: the runs of func, [arg, waited]
    debLog,          \* history: the calls of the closure, [arg, gap]
    \* ---- Navigation: the mobile menu
    menuActive,      \* navMenu.classList contains 'active'
    hamburgerActive, \* hamburger.classList contains 'active'
    bodyOverflow,    \* document.body.style.overflow
    innerWidth,      \* window.innerWidth
    resizeTimeout,   \* timeout of the debounce closure of line 89
    resizeTimers,    \* pending timers of that closure
    scrollRequest,   \* top of the last window.scrollTo of line 114, None if none
    navClick,        \* history: <<the last nav-link click>>, [href, threw, scrollTo]
    sinceResize,     \* history: ms since the last resize event, saturating
    resizeRuns,      \* history: the runs of the resize callback since that event
    \* ---- ContactForm
    fieldValue,      \* field -> its value, a sequence of characters
    fieldError,      \* field -> its classList contains 'error'
    fieldErrorEls,   \* field -> the .field-error elements of its parentNode (texts)
    btnLabel,        \* submit button innerHTML
    btnDisabled,     \* submit button disabled
    location,        \* the mailto navigations of line 379, oldest first
    banners,         \* the .success-message elements in the form (ids)
    formTimers,      \* pending timers of lines 382 and 410
    submits,         \* history: submit events handled
    sinceSubmit,     \* history: ms since the last sendEmail, saturating
    sinceRestore,    \* history: banner -> ms since it was appended, saturating
    formLog,         \* history: what the timer callbacks observed
    \* ---- validateField applied to one field
    probe,           \* the field: [type, value, error, els]
    probeResult,     \* <<what validateField returned>>, <<>> before the call
    \* ---- AnimationManager: the counter of one .stat-number element
    statText,        \* its textContent: [value, plus], a number and maybe a '+'
    statObserved,    \* statsObserver observes the element
    counterTarget,   \* target of the running animateCounter, None before it
    counterTicks,    \* the intervals of line 227: callbacks each has run so far
    counterRunning,  \* the intervals of line 227: set and not cleared
    \* ---- ThemeManager
    themeStored,     \* localStorage item 'theme': <<>> if absent, else <<value>>
    dataTheme,       \* data-theme attribute of document.documentElement
    currentTheme,    \* this.currentTheme
    themeLog,        \* history: the constructions and toggles so far
    \* ---- ContactForm.sendEmail: the mailto link of one form data
    mailData,        \* data: field name -> value, a sequence of characters
    mailHref,        \* <<window.location.href set by line 379>>, <<>> before
    \* ---- animateOnScroll, the shared IntersectionObserver
    revObserved,     \* the elements it observes
    revClass,        \* element -> its classList contains 'animate-fade-in-up'
    revInView,       \* element -> it intersects the viewport
    revReported,     \* element -> what the observer last queued for it, or "none"
    revQueue,        \* entries queued for the next callback, oldest first
    revRuns          \* history: element -> runs of the body of lines 39-40

scrollVars == <<scrollY, scrollPending, linkActive, navbarScrolled, btnOpacity,
                btnVisibility, navInThrottle, topInThrottle, navHandledY,
                updatedY, topHandledY>>
pageVars == <<sections, href>>
throttleVars == <<thrLimit, thrInThrottle, thrTimers, thrSinceRun, thrRuns, thrLog>>
debounceVars == <<debWait, debTimeout, debTimers, debSinceCall, debRuns, debLog>>
menuVars == <<menuActive, hamburgerActive, bodyOverflow, innerWidth, resizeTimeout,
              resizeTimers, scrollRequest, navClick, sinceResize, resizeRuns>>
formVars == <<fieldValue, fieldError, fieldErrorEls, btnLabel, btnDisabled, location,
              banners, formTimers, submits, sinceSubmit, sinceRestore, formLog>>
probeVars == <<probe, probeResult>>
counterVars == <<statText, statObserved, counterTarget, counterTicks, counterRunning>>
themeVars == <<themeStored, dataTheme, currentTheme, themeLog>>
mailVars == <<mailData, mailHref>>
revealVars == <<revObserved, revClass, revInView, revReported, revQueue, revRuns>>
vars == <<pageVars, scrollVars, throttleVars, debounceVars, menuVars, formVars,
          probeVars, counterVars, themeVars, mailVars, revealVars>>

\* what the actions of one controller leave alone
notScroll == <<throttleVars, debounceVars, menuVars, formVars, probeVars,
    counterVars, themeVars, mailVars, revealVars>>
notThrottle == <<pageVars, scrollVars, debounceVars, menuVars, formVars,
    probeVars, counterVars, themeVars, mailVars, revealVars>>
notDebounce == <<pageVars, scrollVars, throttleVars, menuVars, formVars,
    probeVars, counterVars, themeVars, mailVars, revealVars>>
notMenu == <<scrollVars, throttleVars, debounceVars, formVars, probeVars,
    counterVars, themeVars, mailVars, revealVars>>
notForm == <<pageVars, scrollVars, throttleVars, debounceVars, menuVars,
    probeVars, counterVars, themeVars, mailVars, revealVars>>
notCounter == <<pageVars, scrollVars, throttleVars, debounceVars, menuVars,
    formVars, probeVars, themeVars, mailVars, revealVars>>
notProbe == <<pageVars, scrollVars, throttleVars, debounceVars, menuVars,
    formVars, counterVars, themeVars, mailVars, revealVars>>
notTheme == <<pageVars, scrollVars, throttleVars, debounceVars, menuVars,
    formVars, probeVars, counterVars, mailVars, revealVars>>
notMail == <<pageVars, scrollVars, throttleVars, debounceVars, menuVars,
    formVars, probeVars, counterVars, themeVars, revealVars>>
notReveal == <<pageVars, scrollVars, throttleVars, debounceVars, menuVars,
    formVars, probeVars, counterVars, themeVars, mailVars>>

None == -1

(***************************************************************************)
(* The page.  The markup is not part of the script: the model draws it     *)
(* from a bounded family that holds contiguous, overlapping and gapped     *)
(* section layouts, links without a section and sections without a link.   *)
(***************************************************************************)
SectionIds == <<"home", "about">>
Tops == {0, 150, 400}
Heights == {150, 400}
Links == {1, 2}
Hrefs == {"#home", "#about", "#blog"}
ScrollYs == {0, 50, 51, 300, 301, 400}

Layouts ==
    { [i \in 1..Len(SectionIds) |->
          [id |-> SectionIds[i], offsetTop |-> g[i][1], offsetHeight |-> g[i][2]]] :
      g \in [1..Len(SectionIds) -> Tops \X Heights] }

(***************************************************************************)
(* Navigation.updateActiveLink, lines 128-146.                             *)
(***************************************************************************)
SectionMatches(section, y) ==
    LET scrollPosition == y + 100
    IN  /\ scrollPosition >= section.offsetTop
        /\ scrollPosition < section.offsetTop + section.offsetHeight

\* the inner navLinks.forEach of lines 138-143 for one matching section:
\* every link loses 'active', the links of the section get it back
MarkLinksNoRemove(hr, section, active) ==
    [l \in Links |-> IF hr[l] = "#" \o section.id THEN TRUE ELSE active[l]]

MarkLinks(hr, section, active) ==
    LET removed == [l \in Links |-> FALSE]
    IN  [l \in Links |-> IF hr[l] = "#" \o section.id THEN TRUE ELSE removed[l]]

RECURSIVE ScanSections(_, _, _, _, _)
ScanSections(secs, hr, y, active, i) ==
    IF i > Len(secs) THEN active
    ELSE IF SectionMatches(secs[i], y)
         THEN ScanSections(secs, hr, y, MarkLinks(hr, secs[i], active), i + 1)
         ELSE ScanSections(secs, hr, y, active, i + 1)

\* a scan that stops at the first matching section
RECURSIVE ScanFirstMatch(_, _, _, _, _)
ScanFirstMatch(secs, hr, y, active, i) ==
    IF i > Len(secs) THEN active
    ELSE IF SectionMatches(secs[i], y)
         THEN MarkLinks(hr, secs[i], active)
         ELSE ScanFirstMatch(secs, hr, y, active, i + 1)

updateActiveLinkFirst(secs, hr, y, active) == ScanFirstMatch(secs, hr, y, active, 1)

\* a variant that first removes 'active' from every link
updateActiveLinkClearFirst(secs, hr, y, active) ==
    ScanSections(secs, hr, y, [l \in Links |-> FALSE], 1)

updateActiveLink(secs, hr, y, active) == ScanSections(secs, hr, y, active, 1)

(***************************************************************************)
(* Navigation.handleScroll, lines 123-126, and ScrollToTop.toggleButton,   *)
(* lines 475-479.                                                          *)
(***************************************************************************)
handleScrollInclusive(y) == y >= 50

handleScroll(y) == y > 50

toggleButton(y) ==
    LET scrolled == y > 300
    IN  [opacity |-> IF scrolled THEN "1" ELSE "0",
         visibility |-> IF scrolled THEN "visible" ELSE "hidden"]

(***************************************************************************)
(* State after DOMContentLoaded: new Navigation() has run init(), which    *)
(* calls updateActiveLink once on the classes the markup gave the links;   *)
(* new ScrollToTop() has created the hidden button (lines 442-443).        *)
(***************************************************************************)
InitPage ==
    /\ sections \in Layouts
    /\ href \in [Links -> Hrefs]

InitScroll ==
    /\ scrollY \in ScrollYs
    /\ scrollPending = FALSE
    /\ \E markup \in [Links -> BOOLEAN] :
           linkActive = updateActiveLink(sections, href, scrollY, markup)
    /\ navbarScrolled = FALSE
    /\ btnOpacity = "0"
    /\ btnVisibility = "hidden"
    /\ navInThrottle = FALSE
    /\ topInThrottle = FALSE
    /\ navHandledY = None
    /\ updatedY = scrollY
    /\ topHandledY = None

(***************************************************************************)
(* The user or a smooth scroll moves the viewport; the browser queues one  *)
(* scroll event for any number of moves.                                   *)
(***************************************************************************)
ScrollMove ==
    /\ \E y \in ScrollYs \ {scrollY} : scrollY' = y
    /\ scrollPending' = TRUE
    /\ UNCHANGED <<linkActive, navbarScrolled, btnOpacity, btnVisibility,
                   navInThrottle, topInThrottle, navHandledY, updatedY, topHandledY>>
    /\ UNCHANGED <<pageVars, notScroll>>

(***************************************************************************)
(* Dispatch of the scroll event to the two listeners in registration       *)
(* order: the throttled closure of lines 76-79 (Navigation is constructed  *)
(* first, line 632), then the one of lines 453-455.  Each is throttle's    *)
(* returned function, lines 21-27.                                         *)
(***************************************************************************)
NavScrollListener ==
    IF ~navInThrottle
    THEN /\ navbarScrolled' = handleScroll(scrollY)
         /\ linkActive' = updateActiveLink(sections, href, scrollY, linkActive)
         /\ navHandledY' = scrollY
         /\ updatedY' = scrollY
         /\ navInThrottle' = TRUE
    ELSE UNCHANGED <<navbarScrolled, linkActive, navHandledY, updatedY, navInThrottle>>

TopScrollListener ==
    IF ~topInThrottle
    THEN /\ btnOpacity' = toggleButton(scrollY).opacity
         /\ btnVisibility' = toggleButton(scrollY).visibility
         /\ topHandledY' = scrollY
         /\ topInThrottle' = TRUE
    ELSE UNCHANGED <<btnOpacity, btnVisibility, topHandledY, topInThrottle>>

ScrollEvent ==
    /\ scrollPending
    /\ scrollPending' = FALSE
    /\ NavScrollListener
    /\ TopScrollListener
    /\ UNCHANGED scrollY
    /\ UNCHANGED <<pageVars, notScroll>>

\* the timer callbacks of line 25, one per closure
NavThrottleTimer ==
    /\ navInThrottle
    /\ navInThrottle' = FALSE
    /\ UNCHANGED <<scrollY, scrollPending, linkActive, navbarScrolled, btnOpacity,
                   btnVisibility, topInThrottle, navHandledY, updatedY, topHandledY>>
    /\ UNCHANGED <<pageVars, notScroll>>

TopThrottleTimer ==
    /\ topInThrottle
    /\ topInThrottle' = FALSE
    /\ UNCHANGED <<scrollY, scrollPending, linkActive, navbarScrolled, btnOpacity,
                   btnVisibility, navInThrottle, navHandledY, updatedY, topHandledY>>
    /\ UNCHANGED <<pageVars, notScroll>>

(***************************************************************************)
(* The browser's timer table.  A timer is [id, remaining, arg]: remaining  *)
(* counts down as time passes and the callback may run once it is 0 (a     *)
(* timer never runs early, and may run late).                              *)
(***************************************************************************)
SetTimeout(timers, id, delay, arg) ==
    timers \cup {[id |-> id, remaining |-> delay, arg |-> arg]}

ClearTimeout(timers, id) == {t \in timers : t.id # id}

Elapse(timers, d) ==
    {[t EXCEPT !.remaining = IF @ > d THEN @ - d ELSE 0] : t \in timers}

Due(timers) == {t \in timers : t.remaining = 0}

Saturate(n, cap) == IF n > cap THEN cap ELSE n

Args == {"a", "b"}
MaxCalls == 3

(***************************************************************************)
(* throttle, lines 19-28.  throttled is the returned function: st is the   *)
(* closure's [inThrottle, timers]; the result adds ran, the arguments func *)
(* was applied to by this call (line 23), if it was.                       *)
(***************************************************************************)
Limits == {2, 3}

throttledNoFlag(st, limit, arg, id) ==
    IF ~st.inThrottle
    THEN [inThrottle |-> st.inThrottle,
          timers |-> SetTimeout(st.timers, id, limit, "reset"),
          ran |-> <<arg>>]
    ELSE [inThrottle |-> st.inThrottle, timers |-> st.timers, ran |-> <<>>]

throttled(st, limit, arg, id) ==
    IF ~st.inThrottle
    THEN [inThrottle |-> TRUE,
          timers |-> SetTimeout(st.timers, id, limit, "reset"),
          ran |-> <<arg>>]
    ELSE [inThrottle |-> st.inThrottle, timers |-> st.timers, ran |-> <<>>]

InitThrottle ==
    /\ thrLimit \in Limits
    /\ thrInThrottle = FALSE
    /\ thrTimers = {}
    /\ thrSinceRun = thrLimit
    /\ thrRuns = <<>>
    /\ thrLog = <<>>

ParkedThrottle ==
    /\ thrLimit = 0
    /\ thrInThrottle = FALSE
    /\ thrTimers = {}
    /\ thrSinceRun = 0
    /\ thrRuns = <<>>
    /\ thrLog = <<>>

ThrottleCall ==
    /\ Len(thrLog) < MaxCalls
    /\ \E arg \in Args :
         LET r == throttled([inThrottle |-> thrInThrottle, timers |-> thrTimers],
                            thrLimit, arg, Len(thrLog) + 1)
         IN  /\ thrInThrottle' = r.inThrottle
             /\ thrTimers' = r.timers
             /\ thrRuns' = thrRuns \o
                    [k \in 1..Len(r.ran) |-> [arg |-> r.ran[k], gap |-> thrSinceRun]]
             /\ thrSinceRun' = IF r.ran # <<>> THEN 0 ELSE thrSinceRun
             /\ thrLog' = Append(thrLog, [arg |-> arg, since |-> thrSinceRun,
                                          ran |-> r.ran # <<>>])
    /\ UNCHANGED thrLimit
    /\ UNCHANGED notThrottle

\* the timer callback of line 25
ThrottleTimer ==
    /\ \E t \in Due(thrTimers) :
         /\ thrTimers' = thrTimers \ {t}
         /\ thrInThrottle' = FALSE
    /\ UNCHANGED <<thrLimit, thrSinceRun, thrRuns, thrLog>>
    /\ UNCHANGED notThrottle

\* one unit of time passes
ThrottleTick ==
    /\ thrTimers' = Elapse(thrTimers, 1)
    /\ thrSinceRun' = Saturate(thrSinceRun + 1, thrLimit)
    /\ UNCHANGED <<thrLimit, thrInThrottle, thrRuns, thrLog>>
    /\ UNCHANGED notThrottle

(***************************************************************************)
(* debounce, lines 7-17.  debounced is executedFunction: it clears the     *)
(* timer named by timeout and sets a new one that holds this call's args.  *)
(***************************************************************************)
Waits == {2, 3}

debouncedNoClear(timeout, timers, wait, arg, id) ==
    [timeout |-> id, timers |-> SetTimeout(timers, id, wait, arg)]

debounced(timeout, timers, wait, arg, id) ==
    [timeout |-> id, timers |-> SetTimeout(ClearTimeout(timers, timeout), id, wait, arg)]

InitDebounce ==
    /\ debWait \in Waits
    /\ debTimeout = None
    /\ debTimers = {}
    /\ debSinceCall = debWait
    /\ debRuns = <<>>
    /\ debLog = <<>>

ParkedDebounce ==
    /\ debWait = 0
    /\ debTimeout = None
    /\ debTimers = {}
    /\ debSinceCall = 0
    /\ debRuns = <<>>
    /\ debLog = <<>>

DebounceCall ==
    /\ Len(debLog) < MaxCalls
    /\ \E arg \in Args :
         LET r == debounced(debTimeout, debTimers, debWait, arg, Len(debLog) + 1)
         IN  /\ debTimeout' = r.timeout
             /\ debTimers' = r.timers
             /\ debLog' = Append(debLog, [arg |-> arg, gap |-> debSinceCall])
    /\ debSinceCall' = 0
    /\ UNCHANGED <<debWait, debRuns>>
    /\ UNCHANGED notDebounce

\* the timer callback later, lines 10-13
DebounceTimer ==
    /\ \E t \in Due(debTimers) :
         /\ debTimers' = ClearTimeout(debTimers \ {t}, debTimeout)
         /\ debRuns' = Append(debRuns, [arg |-> t.arg, waited |-> debSinceCall])
    /\ UNCHANGED <<debWait, debTimeout, debSinceCall, debLog>>
    /\ UNCHANGED notDebounce

\* one unit of time passes
DebounceTick ==
    /\ debTimers' = Elapse(debTimers, 1)
    /\ debSinceCall' = Saturate(debSinceCall + 1, debWait)
    /\ UNCHANGED <<debWait, debTimeout, debRuns, debLog>>
    /\ UNCHANGED notDebounce

(***************************************************************************)
(* Navigation: the mobile menu.  m is [menu, hamburger, overflow].         *)
(* toggleMobileMenu, lines 96-100, and closeMobileMenu, lines 102-106.     *)
(***************************************************************************)
Widths == {600, 768, 769, 1024}
\* the wait of the debounced resize listener, line 93
ResizeWait == 250

toggleMobileMenu(m) ==
    LET menu == ~m.menu
    IN  [menu |-> menu,
         hamburger |-> ~m.hamburger,
         overflow |-> IF menu THEN "hidden" ELSE ""]

closeMobileMenuKeepLock(m) ==
    [menu |-> FALSE, hamburger |-> FALSE, overflow |-> m.overflow]

closeMobileMenu(m) ==
    [menu |-> FALSE, hamburger |-> FALSE, overflow |-> ""]

Menu == [menu |-> menuActive, hamburger |-> hamburgerActive, overflow |-> bodyOverflow]

SetMenu(m) ==
    /\ menuActive' = m.menu
    /\ hamburgerActive' = m.hamburger
    /\ bodyOverflow' = m.overflow

\* the hrefs a nav link may have: those of the page, and a bare '#'
NavHrefs == Hrefs \cup {"#"}

\* document.querySelector throws a SyntaxError on a string that is no
\* selector; '#' needs an identifier after it
ValidSelector(selector) == selector # "#"

\* document.querySelector(targetId), line 110: the section with that id
QuerySelector(secs, selector) ==
    {i \in 1..Len(secs) : "#" \o secs[i].id = selector}

\* the markup has the menu closed and the page unlocked
InitMenuPage ==
    /\ sections \in Layouts
    /\ href \in [Links -> NavHrefs]

InitMenu ==
    /\ menuActive = FALSE
    /\ hamburgerActive = FALSE
    /\ bodyOverflow = ""
    /\ innerWidth \in Widths
    /\ resizeTimeout = None
    /\ resizeTimers = {}
    /\ scrollRequest = None
    /\ navClick = <<>>
    /\ sinceResize = ResizeWait
    /\ resizeRuns = <<>>

ParkedMenu ==
    /\ menuActive = FALSE
    /\ hamburgerActive = FALSE
    /\ bodyOverflow = ""
    /\ innerWidth = 0
    /\ resizeTimeout = None
    /\ resizeTimers = {}
    /\ scrollRequest = None
    /\ navClick = <<>>
    /\ sinceResize = ResizeWait
    /\ resizeRuns = <<>>

(***************************************************************************)
(* A click bubbles from its target to the document listener of lines       *)
(* 82-86.  The hamburger and the nav links are inside the nav bar, so for  *)
(* clicks on them that listener finds navbar.contains(e.target) true.      *)
(***************************************************************************)
DocumentClick(m, insideNavbar) ==
    IF ~insideNavbar /\ m.menu THEN closeMobileMenu(m) ELSE m

\* click on the hamburger, lines 63-65
ToggleClick ==
    /\ SetMenu(DocumentClick(toggleMobileMenu(Menu), TRUE))
    /\ UNCHANGED <<innerWidth, resizeTimeout, resizeTimers, scrollRequest, navClick,
                   sinceResize, resizeRuns>>
    /\ UNCHANGED <<pageVars, notMenu>>

\* click on a nav link, lines 69-72 and handleNavClick, lines 108-121
\* the result is the menu, the tops passed to window.scrollTo and whether
\* line 110 threw, which ends the listener before lines 112-120
handleNavClick(m, secs, targetId) ==
    LET targetSection == QuerySelector(secs, targetId)
    IN  IF ~ValidSelector(targetId)
        THEN [menu |-> m, scrollTo |-> {}, threw |-> TRUE]
        ELSE [menu |-> closeMobileMenu(m),
              scrollTo |-> IF targetSection # {}
                           THEN {secs[CHOOSE i \in targetSection :
                                     \A j \in targetSection : i <= j].offsetTop - 80}
                           ELSE {},
              threw |-> FALSE]

NavLinkClick ==
    /\ \E l \in Links :
         LET r == handleNavClick(Menu, sections, href[l])
         IN  /\ SetMenu(DocumentClick(r.menu, TRUE))
             /\ scrollRequest' = IF r.scrollTo = {} THEN scrollRequest
                                 ELSE CHOOSE top \in r.scrollTo : TRUE
             /\ navClick' = <<[href |-> href[l], threw |-> r.threw,
                               scrollTo |-> r.scrollTo]>>
    /\ UNCHANGED <<innerWidth, resizeTimeout, resizeTimers, sinceResize, resizeRuns>>
    /\ UNCHANGED <<pageVars, notMenu>>

\* click outside the nav bar
OutsideClick ==
    /\ SetMenu(DocumentClick(Menu, FALSE))
    /\ UNCHANGED <<innerWidth, resizeTimeout, resizeTimers, scrollRequest, navClick,
                   sinceResize, resizeRuns>>
    /\ UNCHANGED <<pageVars, notMenu>>

\* a resize event: the debounced listener of lines 89-93 is called

\* the id setTimeout returns, never that of the closure's pending timer
NewTimerId(timeout) == IF timeout = 1 THEN 2 ELSE 1

Resize ==
    /\ \E w \in Widths : innerWidth' = w
    /\ LET r == debounced(resizeTimeout, resizeTimers, ResizeWait, "resize",
                          NewTimerId(resizeTimeout))
       IN  /\ resizeTimeout' = r.timeout
           /\ resizeTimers' = r.timers
    /\ sinceResize' = 0
    /\ resizeRuns' = <<>>
    /\ UNCHANGED <<menuActive, hamburgerActive, bodyOverflow, scrollRequest, navClick>>
    /\ UNCHANGED <<pageVars, notMenu>>

\* a callback that closes the menu whatever the width
ResizeTimerAnyWidth ==
    /\ \E t \in Due(resizeTimers) :
         resizeTimers' = ClearTimeout(resizeTimers \ {t}, resizeTimeout)
    /\ SetMenu(closeMobileMenu(Menu))
    /\ resizeRuns' = Append(resizeRuns, [width |-> innerWidth, open |-> menuActive,
                                         after |-> sinceResize])
    /\ UNCHANGED <<innerWidth, resizeTimeout, scrollRequest, navClick, sinceResize>>
    /\ UNCHANGED <<pageVars, notMenu>>

\* the debounced callback, lines 90-92
ResizeTimer ==
    /\ \E t \in Due(resizeTimers) :
         resizeTimers' = ClearTimeout(resizeTimers \ {t}, resizeTimeout)
    /\ IF innerWidth > 768
       THEN SetMenu(closeMobileMenu(Menu))
       ELSE UNCHANGED <<menuActive, hamburgerActive, bodyOverflow>>
    /\ resizeRuns' = Append(resizeRuns, [width |-> innerWidth, open |-> menuActive,
                                         after |-> sinceResize])
    /\ UNCHANGED <<innerWidth, resizeTimeout, scrollRequest, navClick, sinceResize>>
    /\ UNCHANGED <<pageVars, notMenu>>

\* 125 ms pass
MenuTick ==
    /\ resizeTimers # {}
    /\ resizeTimers' = Elapse(resizeTimers, 125)
    /\ sinceResize' = Saturate(sinceResize + 125, ResizeWait)
    /\ UNCHANGED <<menuActive, hamburgerActive, bodyOverflow, innerWidth,
                   resizeTimeout, scrollRequest, navClick, resizeRuns>>
    /\ UNCHANGED <<pageVars, notMenu>>

(***************************************************************************)
(* ContactForm: field validation, lines 283-329.  A value is a sequence of *)
(* characters; " " stands for the whitespace characters.  A field is       *)
(* [type, value, error, els]: els are the texts of the .field-error        *)
(* elements of its parentNode, in document order (each field of the form   *)
(* sits in a form group of its own).                                       *)
(***************************************************************************)
Chars == {"a", "@", ".", " "}
MaxLen == 5
Values == UNION {[1..n -> Chars] : n \in 0..MaxLen}

RequiredMessage == "This field is required"
EmailMessage == "Please enter a valid email address"

\* String.prototype.trim, line 284
RECURSIVE TrimStart(_)
TrimStart(s) == IF s # <<>> /\ Head(s) = " " THEN TrimStart(Tail(s)) ELSE s

RECURSIVE TrimEnd(_)
TrimEnd(s) ==
    IF s # <<>> /\ s[Len(s)] = " " THEN TrimEnd(SubSeq(s, 1, Len(s) - 1)) ELSE s

Trim(s) == TrimEnd(TrimStart(s))

\* [^\s@]
Plain(c) == c # " " /\ c # "@"

(***************************************************************************)
(* emailRegex.test, lines 292-293: /^[^\s@]+@[^\s@]+\.[^\s@]+$/ run as an  *)
(* automaton.  States: 0 start, 1 in the first [^\s@]+, 2 after @, 3 in    *)
(* the second [^\s@]+, 4 after \., 5 in the third [^\s@]+ (accepting).     *)
(***************************************************************************)
RegexStep(q, c) ==
    CASE q = 0 -> IF Plain(c) THEN {1} ELSE {}
      [] q = 1 -> IF Plain(c) THEN {1} ELSE IF c = "@" THEN {2} ELSE {}
      [] q = 2 -> IF Plain(c) THEN {3} ELSE {}
      [] q = 3 -> IF c = "." THEN {3, 4} ELSE IF Plain(c) THEN {3} ELSE {}
      [] q = 4 -> IF Plain(c) THEN {5} ELSE {}
      [] q = 5 -> IF Plain(c) THEN {5} ELSE {}

RECURSIVE RegexRun(_, _)
RegexRun(qs, s) ==
    IF s = <<>> THEN qs
    ELSE RegexRun(UNION {RegexStep(q, Head(s)) : q \in qs}, Tail(s))

\* a test that accepts anything with an @
emailRegexTestLoose(s) == \E i \in 1..Len(s) : s[i] = "@"

emailRegexTest(s) == 5 \in RegexRun({0}, s)

\* clearFieldError, lines 323-329: querySelector finds the first element
clearFieldError(field) ==
    [field EXCEPT !.error = FALSE,
                  !.els = IF @ # <<>> THEN Tail(@) ELSE @]

\* an error display that appends without clearing first
showFieldErrorNoClear(field, message) ==
    [field EXCEPT !.error = TRUE, !.els = Append(@, message)]

\* showFieldError, lines 308-321
showFieldError(field, message) ==
    LET cleared == clearFieldError(field)
    IN  [cleared EXCEPT !.error = TRUE, !.els = Append(@, message)]

\* validateField, lines 283-306: [isValid, field]
validateField(field) ==
    LET value == Trim(field.value)
        errorMessage ==
            IF value = <<>> THEN RequiredMessage
            ELSE IF field.type = "email" /\ ~emailRegexTest(value) THEN EmailMessage
            ELSE ""
        isValid == errorMessage = ""
    IN  [isValid |-> isValid,
         field |-> IF ~isValid THEN showFieldError(field, errorMessage)
                   ELSE clearFieldError(field)]

(***************************************************************************)
(* validateField on one field of any type and value, with or without an    *)
(* error already displayed.                                                *)
(***************************************************************************)
Types == {"text", "email", "textarea"}
ErrorStates == {[error |-> FALSE, els |-> <<>>],
                [error |-> TRUE, els |-> <<RequiredMessage>>],
                [error |-> TRUE, els |-> <<EmailMessage>>]}

InitProbe ==
    /\ \E t \in Types, v \in Values, e \in ErrorStates :
         probe = [type |-> t, value |-> v, error |-> e.error, els |-> e.els]
    /\ probeResult = <<>>

ParkedProbe ==
    /\ probe = [type |-> "text", value |-> <<>>, error |-> FALSE, els |-> <<>>]
    /\ probeResult = <<>>

\* blur on the field, lines 273-275
ProbeBlur ==
    /\ probeResult' = <<validateField(probe).isValid>>
    /\ probe' = validateField(probe).field
    /\ UNCHANGED notProbe

\* the user edits the field: an input event, lines 277-279
ProbeInput ==
    /\ probeResult # <<>>
    /\ \E v \in {<<>>, <<"a">>} \ {probe.value} :
         probe' = clearFieldError([probe EXCEPT !.value = v])
    /\ probeResult' = <<>>
    /\ UNCHANGED notProbe

(***************************************************************************)
(* ContactForm.sendEmail, lines 365-379: the mailto link.  A string is a   *)
(* sequence of characters.  encodeURIComponent leaves the unreserved       *)
(* characters alone and writes every other character as % and the two hex  *)
(* digits of its code (the characters used here are all one byte long).    *)
(***************************************************************************)
Unreserved ==
    {"a", "b", "c", "d", "e", "f", "g", "h", "i", "j", "k", "l", "m", "n",
     "o", "p", "q", "r", "s", "t", "u", "v", "w", "x", "y", "z", "A", "B",
     "C", "D", "E", "F", "G", "H", "I", "J", "K", "L", "M", "N", "O", "P",
     "Q", "R", "S", "T", "U", "V", "W", "X", "Y", "Z", "0", "1", "2", "3",
     "4", "5", "6", "7", "8", "9", "-", "_", ".", "!", "~", "*", "'", "(",
     ")"}

\* the escaped characters that occur in the template or in a value
PercentCode ==
    [c \in {" ", "\n", ":", "@", "&", "%", "=", "?", "#", "+"} |->
        CASE c = " " -> <<"%", "2", "0">>
          [] c = "\n" -> <<"%", "0", "A">>
          [] c = ":" -> <<"%", "3", "A">>
          [] c = "@" -> <<"%", "4", "0">>
          [] c = "&" -> <<"%", "2", "6">>
          [] c = "%" -> <<"%", "2", "5">>
          [] c = "=" -> <<"%", "3", "D">>
          [] c = "?" -> <<"%", "3", "F">>
          [] c = "#" -> <<"%", "2", "3">>
          [] c = "+" -> <<"%", "2", "B">>]

\* an encoding that leaves every character alone
RECURSIVE encodeNothing(_)
encodeNothing(s) == IF s = <<>> THEN <<>> ELSE <<Head(s)>> \o encodeNothing(Tail(s))

RECURSIVE encodeURIComponent(_)
encodeURIComponent(s) ==
    IF s = <<>> THEN <<>>
    ELSE (IF Head(s) \in Unreserved THEN <<Head(s)>> ELSE PercentCode[Head(s)])
         \o encodeURIComponent(Tail(s))

MailtoScheme ==
    <<"m", "a", "i", "l", "t", "o", ":">>
RecipientChars ==
    <<"s", "a", "i", "k", "u", "m", "a", "r", "p", "o", "l", "a", "v", "a",
      "r", "a", "m", "@", "o", "u", "t", "l", "o", "o", "k", ".", "c", "o",
      "m">>
SubjectKey ==
    <<"?", "s", "u", "b", "j", "e", "c", "t", "=">>
BodyKey ==
    <<"&", "b", "o", "d", "y", "=">>
SubjectPrefix ==
    <<"P", "o", "r", "t", "f", "o", "l", "i", "o", " ", "C", "o", "n", "t",
      "a", "c", "t", ":", " ">>
NameLabel ==
    <<"\n", "N", "a", "m", "e", ":", " ">>
EmailLabel ==
    <<"\n", "E", "m", "a", "i", "l", ":", " ">>
SubjectLabel ==
    <<"\n", "S", "u", "b", "j", "e", "c", "t", ":", " ">>
MessageLabel ==
    <<"\n", "\n", "M", "e", "s", "s", "a", "g", "e", ":", "\n">>
BodyTail ==
    <<"\n", " ", " ", " ", " ">>

\* the template literals of lines 366 and 367-374
SubjectText(data) == SubjectPrefix \o data.subject
BodyText(data) ==
    NameLabel \o data.name \o EmailLabel \o data.email \o SubjectLabel
    \o data.subject \o MessageLabel \o data.message \o BodyTail

\* mailtoLink, lines 366-376
Mailto(data) ==
    LET subject == encodeURIComponent(SubjectText(data))
        body == encodeURIComponent(BodyText(data))
    IN  MailtoScheme \o RecipientChars \o SubjectKey \o subject \o BodyKey \o body

\* the form data whose link is built: the values of the four named fields
MailValues ==
    {<<>>,
     <<"A">>,
     <<"a", "@", "b", ".", "c", "o", "m">>,
     <<"H", "i">>,
     <<"T", "e", "s", "t">>,
     <<"a", "&", "b", "=", "c">>,
     <<"5", "0", "%", " ", "+", "?", "#", "\n">>}

MailData == [{"name", "email", "subject", "message"} -> MailValues]

InitMail ==
    /\ mailData \in MailData
    /\ mailHref = <<>>

ParkedMail ==
    /\ mailData = [f \in {"name", "email", "subject", "message"} |-> <<>>]
    /\ mailHref = <<>>

\* sendEmail builds the link and navigates to it, line 379
MailSend ==
    /\ mailHref = <<>>
    /\ mailHref' = <<Mailto(mailData)>>
    /\ UNCHANGED mailData
    /\ UNCHANGED notMail

\* the user changes a field before the next submission
MailEdit ==
    /\ mailHref # <<>>
    /\ \E f \in DOMAIN mailData : \E v \in MailValues \ {mailData[f]} :
           mailData' = [mailData EXCEPT ![f] = v]
    /\ mailHref' = <<>>
    /\ UNCHANGED notMail

(***************************************************************************)
(* ContactForm: the form, lines 256-414.  The inputs and textareas of the  *)
(* form in document order, with their types; the form data of line 339 is  *)
(* the values by field name.                                               *)
(***************************************************************************)
Fields == <<"name", "email", "subject", "message">>
FieldNames == {Fields[i] : i \in 1..Len(Fields)}
FieldType == [name |-> "text", email |-> "email", subject |-> "text",
              message |-> "textarea"]
\* what the user may type into a field
FormValues(f) ==
    IF FieldType[f] = "email" THEN {<<>>, <<"a">>, <<"a", "@", "a", ".", "a">>}
    ELSE {<<>>, <<"a">>}
MaxSubmits == 2

MarkupLabel == "Send Message"
SendingLabel == "<i class=\"fas fa-spinner fa-spin\"></i> Sending..."

FieldOf(f) ==
    [type |-> FieldType[f], value |-> fieldValue[f], error |-> fieldError[f],
     els |-> fieldErrorEls[f]]

InitForm ==
    /\ fieldValue = [f \in FieldNames |-> <<>>]
    /\ fieldError = [f \in FieldNames |-> FALSE]
    /\ fieldErrorEls = [f \in FieldNames |-> <<>>]
    /\ btnLabel = MarkupLabel
    /\ btnDisabled = FALSE
    /\ location = <<>>
    /\ banners = {}
    /\ formTimers = {}
    /\ submits = 0
    /\ sinceSubmit = 0
    /\ sinceRestore = <<>>
    /\ formLog = {}

ParkedForm == InitForm

\* the user edits a field: its value changes and the input listener of
\* lines 277-279 clears its error
FormInput ==
    /\ \E f \in FieldNames : \E v \in FormValues(f) \ {fieldValue[f]} :
         LET field == clearFieldError([FieldOf(f) EXCEPT !.value = v])
         IN  /\ fieldValue' = [fieldValue EXCEPT ![f] = field.value]
             /\ fieldError' = [fieldError EXCEPT ![f] = field.error]
             /\ fieldErrorEls' = [fieldErrorEls EXCEPT ![f] = field.els]
    /\ UNCHANGED <<btnLabel, btnDisabled, location, banners, formTimers, submits,
                   sinceSubmit, sinceRestore, formLog>>
    /\ UNCHANGED notForm

\* a field loses focus: the blur listener of lines 273-275
FormBlur ==
    /\ \E f \in FieldNames :
         LET field == validateField(FieldOf(f)).field
         IN  /\ fieldError' = [fieldError EXCEPT ![f] = field.error]
             /\ fieldErrorEls' = [fieldErrorEls EXCEPT ![f] = field.els]
    /\ UNCHANGED <<fieldValue, btnLabel, btnDisabled, location, banners, formTimers,
                   submits, sinceSubmit, sinceRestore, formLog>>
    /\ UNCHANGED notForm

\* a loop that stops at the first invalid field
RECURSIVE ValidateUntilInvalid(_, _, _)
ValidateUntilInvalid(fields, i, isFormValid) ==
    IF i > Len(Fields) THEN [isFormValid |-> isFormValid, fields |-> fields]
    ELSE LET r == validateField(fields[Fields[i]])
         IN  IF ~r.isValid
             THEN [isFormValid |-> FALSE,
                   fields |-> [fields EXCEPT ![Fields[i]] = r.field]]
             ELSE ValidateUntilInvalid([fields EXCEPT ![Fields[i]] = r.field],
                                       i + 1, isFormValid)

\* the inputs.forEach of lines 346-350: every field is validated, in order
RECURSIVE ValidateAll(_, _, _)
ValidateAll(fields, i, isFormValid) ==
    IF i > Len(Fields) THEN [isFormValid |-> isFormValid, fields |-> fields]
    ELSE LET r == validateField(fields[Fields[i]])
         IN  ValidateAll([fields EXCEPT ![Fields[i]] = r.field], i + 1,
                         IF ~r.isValid THEN FALSE ELSE isFormValid)

\* sendEmail, lines 357-388: button [label, disabled], the navigation and
\* the timer of line 382 holding originalText (the n-th submission sets
\* timer 2n - 1 and will append banner n, removed by timer 2n)
sendEmailNoDelay(data, label, timers, id) ==
    LET originalText == label
    IN  [label |-> SendingLabel,
         disabled |-> TRUE,
         href |-> Mailto(data),
         timers |-> SetTimeout(timers, id, 0,
                               [kind |-> "restore", originalText |-> originalText,
                                banner |-> (id + 1) \div 2])]

sendEmail(data, label, timers, id) ==
    LET originalText == label
    IN  [label |-> SendingLabel,
         disabled |-> TRUE,
         href |-> Mailto(data),
         timers |-> SetTimeout(timers, id, 1000,
                               [kind |-> "restore", originalText |-> originalText,
                                banner |-> (id + 1) \div 2])]

\* the browser delivers a submit event only while the form's submit button
\* is enabled
SubmitDeliverable == ~btnDisabled

\* the submit listener, lines 332-335, and handleFormSubmit, lines 338-355
SubmitListener ==
    /\ submits < MaxSubmits
    /\ submits' = submits + 1
    /\ LET data == fieldValue
           v == ValidateAll([f \in FieldNames |-> FieldOf(f)], 1, TRUE)
       IN  /\ fieldError' = [f \in FieldNames |-> v.fields[f].error]
           /\ fieldErrorEls' = [f \in FieldNames |-> v.fields[f].els]
           /\ IF v.isFormValid
              THEN LET s == sendEmail(data, btnLabel, formTimers, 2 * submits' - 1)
                   IN  /\ btnLabel' = s.label
                       /\ btnDisabled' = s.disabled
                       /\ location' = Append(location, s.href)
                       /\ formTimers' = s.timers
                       /\ sinceSubmit' = 0
              ELSE UNCHANGED <<btnLabel, btnDisabled, location, formTimers,
                               sinceSubmit>>
    /\ UNCHANGED <<fieldValue, banners, sinceRestore, formLog>>
    /\ UNCHANGED notForm

\* a submit event the user causes with the submit button or the Enter key
FormSubmit == SubmitDeliverable /\ SubmitListener

\* a submit event dispatched although the button of line 358 is disabled:
\* form.requestSubmit() or another submit control of the form
FormResubmit == ~SubmitDeliverable /\ SubmitListener

\* the timer callback of lines 382-387, with showSuccessMessage, lines
\* 390-413: the banner is appended and its removal timer set
RestoreTimer ==
    /\ \E t \in Due(formTimers) :
         /\ t.arg.kind = "restore"
         /\ btnLabel' = t.arg.originalText
         /\ btnDisabled' = FALSE
         /\ fieldValue' = [f \in FieldNames |-> <<>>]
         /\ banners' = banners \cup {t.arg.banner}
         /\ formTimers' = SetTimeout(formTimers \ {t}, t.id + 1, 5000,
                                     [kind |-> "banner", originalText |-> "",
                                      banner |-> t.arg.banner])
         /\ sinceRestore' = [b \in banners \cup {t.arg.banner} |->
                                IF b = t.arg.banner THEN 0 ELSE sinceRestore[b]]
         /\ formLog' = formLog \cup {[event |-> "restore", after |-> sinceSubmit]}
    /\ UNCHANGED <<fieldError, fieldErrorEls, location, submits, sinceSubmit>>
    /\ UNCHANGED notForm

\* the timer callback of lines 410-412
BannerTimer ==
    /\ \E t \in Due(formTimers) :
         /\ t.arg.kind = "banner"
         /\ banners' = banners \ {t.arg.banner}
         /\ formTimers' = formTimers \ {t}
         /\ sinceRestore' = [b \in banners \ {t.arg.banner} |-> sinceRestore[b]]
         /\ formLog' = formLog \cup
                {[event |-> "remove", after |-> sinceRestore[t.arg.banner]]}
    /\ UNCHANGED <<fieldValue, fieldError, fieldErrorEls, btnLabel, btnDisabled,
                   location, submits, sinceSubmit>>
    /\ UNCHANGED notForm

\* 1000 ms pass
FormTick ==
    /\ formTimers # {}
    /\ formTimers' = Elapse(formTimers, 1000)
    /\ sinceSubmit' = Saturate(sinceSubmit + 1000, 1000)
    /\ sinceRestore' = [b \in DOMAIN sinceRestore |->
                           Saturate(sinceRestore[b] + 1000, 5000)]
    /\ UNCHANGED <<fieldValue, fieldError, fieldErrorEls, btnLabel, btnDisabled,
                   location, banners, submits, formLog>>
    /\ UNCHANGED notForm

(***************************************************************************)
(* AnimationManager.setupCounterAnimations, lines 221-252, for one stat    *)
(* element.  current is the sum of k increments of target / 60 in double   *)
(* precision; for some k the sum is just below a whole number that the     *)
(* exact k * target / 60 reaches, so Math.floor gives one less and the     *)
(* comparison current >= target fails at k = 60.                           *)
(***************************************************************************)
Targets == {0, 3, 10, 11, 25}
Steps == 60
MaxStarts == 2

\* the k at which the double sum of k increments of target / 60 is below
\* the whole number k * target / 60 (IEEE 754 addition, for each target)
RoundedDown ==
    [t \in Targets |-> CASE t = 3 -> {60}
                         [] t = 10 -> {6, 18, 24, 60}
                         [] t = 25 -> {36}
                         [] OTHER -> {}]

\* parseInt(statNumber.textContent), line 242
ParseInt(text) == text.value

\* an interval callback that never clears its timer
animateCounterStepNoClear(target, k, short) ==
    LET sixtieths == k * target
        reached == IF short THEN sixtieths > Steps * target
                   ELSE sixtieths >= Steps * target
        floor == IF short /\ sixtieths % Steps = 0 THEN (sixtieths \div Steps) - 1
                 ELSE sixtieths \div Steps
    IN  IF reached
        THEN [text |-> [value |-> target, plus |-> target = 3], cleared |-> FALSE]
        ELSE [text |-> [value |-> floor, plus |-> target > 10], cleared |-> FALSE]

\* one interval callback, lines 228-234, after k increments: the text
\* written and whether clearInterval was called; short tells whether the sum
\* is below the exact value
animateCounterStep(target, k, short) ==
    LET sixtieths == k * target
        reached == IF short THEN sixtieths > Steps * target
                   ELSE sixtieths >= Steps * target
        floor == IF short /\ sixtieths % Steps = 0 THEN (sixtieths \div Steps) - 1
                 ELSE sixtieths \div Steps
    IN  IF reached
        THEN [text |-> [value |-> target, plus |-> target = 3], cleared |-> TRUE]
        ELSE [text |-> [value |-> floor, plus |-> target > 10], cleared |-> FALSE]

InitCounter ==
    /\ \E t \in Targets, p \in BOOLEAN : statText = [value |-> t, plus |-> p]
    /\ statObserved = TRUE
    /\ counterTarget = None
    /\ counterTicks = <<>>
    /\ counterRunning = <<>>

ParkedCounter ==
    /\ statText = [value |-> 0, plus |-> FALSE]
    /\ statObserved = FALSE
    /\ counterTarget = None
    /\ counterTicks = <<>>
    /\ counterRunning = <<>>

\* the statsObserver callback, lines 238-247, called with n intersecting
\* entries of the element (more than one when the element entered, left and
\* re-entered the viewport before the call): each entry parses the text and
\* starts an interval
StatVisible ==
    /\ statObserved
    /\ \E n \in 1..MaxStarts :
         /\ counterTicks' = [i \in 1..n |-> 0]
         /\ counterRunning' = [i \in 1..n |-> TRUE]
    /\ counterTarget' = ParseInt(statText)
    /\ statObserved' = FALSE
    /\ UNCHANGED statText
    /\ UNCHANGED notCounter

\* intervals of the same delay fire in the order they were set: it is the
\* turn of interval i when the earlier ones are a tick ahead and the later
\* ones are not
TurnOf(i) ==
    /\ counterRunning[i]
    /\ \A j \in 1..(i - 1) : counterTicks[j] > counterTicks[i]
    /\ \A j \in (i + 1)..Len(counterTicks) : counterTicks[j] = counterTicks[i]

\* the interval callback of lines 227-235
CounterTick ==
    /\ \E i \in 1..Len(counterTicks) :
         /\ TurnOf(i)
         /\ LET k == counterTicks[i] + 1
                r == animateCounterStep(counterTarget, k,
                                        k \in RoundedDown[counterTarget])
            IN  /\ counterTicks' = [counterTicks EXCEPT ![i] = k]
                /\ statText' = r.text
                /\ counterRunning' = [counterRunning EXCEPT ![i] = ~r.cleared]
    /\ UNCHANGED <<statObserved, counterTarget>>
    /\ UNCHANGED notCounter

(***************************************************************************)
(* ThemeManager, lines 601-626.  The localStorage item 'theme' is <<>>     *)
(* when the key is absent (getItem returns null) and <<value>> otherwise;  *)
(* the item outlives the page and may hold what an earlier version of the  *)
(* page or another page of the same origin wrote.                          *)
(***************************************************************************)
StoredThemes == {<<>>, <<"">>, <<"light">>, <<"dark">>, <<"auto">>}
MaxThemeOps == 4

\* localStorage.getItem('theme') || 'light', line 603
GetItemOrLight(item) ==
    IF item = <<>> \/ item[1] = "" THEN "light" ELSE item[1]

\* an applyTheme that does not persist the theme
applyThemeNoPersist(theme, item) == [dataTheme |-> theme, item |-> item]

\* applyTheme, lines 612-615: item is the stored item before the call
applyTheme(theme, item) == [dataTheme |-> theme, item |-> <<theme>>]

\* toggleTheme, line 623
toggleTheme(theme) == IF theme = "light" THEN "dark" ELSE "light"

\* new ThemeManager(), lines 602-610, on a stored item
ThemeManager(item) ==
    LET theme == GetItemOrLight(item)
        applied == applyTheme(theme, item)
    IN  [currentTheme |-> theme, dataTheme |-> applied.dataTheme,
         item |-> applied.item]

\* state after DOMContentLoaded: new ThemeManager() has run on a stored item
InitTheme ==
    \E item \in StoredThemes :
        /\ currentTheme = ThemeManager(item).currentTheme
        /\ dataTheme = ThemeManager(item).dataTheme
        /\ themeStored = ThemeManager(item).item
        /\ themeLog = <<[op |-> "construct", item |-> item,
                         theme |-> ThemeManager(item).currentTheme]>>

ParkedTheme ==
    /\ currentTheme = "light"
    /\ dataTheme = "light"
    /\ themeStored = <<"light">>
    /\ themeLog = <<>>

\* a call of toggleTheme, lines 622-625
ToggleTheme ==
    /\ Len(themeLog) <= MaxThemeOps
    /\ LET theme == toggleTheme(currentTheme)
           applied == applyTheme(theme, themeStored)
       IN  /\ currentTheme' = theme
           /\ dataTheme' = applied.dataTheme
           /\ themeStored' = applied.item
           /\ themeLog' = Append(themeLog, [op |-> "toggle", item |-> themeStored,
                                            theme |-> theme])
    /\ UNCHANGED notTheme

\* the page is loaded again: a new document and a new ThemeManager on the
\* item the last page left in localStorage
ThemeReload ==
    /\ Len(themeLog) <= MaxThemeOps
    /\ LET t == ThemeManager(themeStored)
       IN  /\ currentTheme' = t.currentTheme
           /\ dataTheme' = t.dataTheme
           /\ themeStored' = t.item
           /\ themeLog' = Append(themeLog, [op |-> "construct", item |-> themeStored,
                                            theme |-> t.currentTheme])
    /\ UNCHANGED notTheme

(***************************************************************************)
(* animateOnScroll, lines 36-43, the IntersectionObserver shared by the    *)
(* elements of setupScrollAnimations, lines 162-176.  The browser compares *)
(* each observed element with the viewport when it updates the rendering,  *)
(* queues an entry for every element whose state changed (and for an       *)
(* element it sees for the first time), and calls the callback later with  *)
(* all the entries queued by then: when the callback is slow to be         *)
(* scheduled, one element can have several entries in one call.            *)
(***************************************************************************)
Elements == {1, 2}
MaxEntries == 3

\* a callback that adds the class and keeps observing
RECURSIVE animateOnScrollKeepObserving(_, _)
animateOnScrollKeepObserving(entries, st) ==
    IF entries = <<>> THEN st
    ELSE LET entry == Head(entries)
         IN  IF entry.isIntersecting
             THEN animateOnScrollKeepObserving(Tail(entries),
                      [observed |-> st.observed,
                       class |-> [st.class EXCEPT ![entry.target] = TRUE],
                       runs |-> [st.runs EXCEPT ![entry.target] = @ + 1]])
             ELSE animateOnScrollKeepObserving(Tail(entries), st)

\* the callback, lines 36-43: entries.forEach over [target, isIntersecting];
\* st is [observed, class, runs]
RECURSIVE animateOnScroll(_, _)
animateOnScroll(entries, st) ==
    IF entries = <<>> THEN st
    ELSE LET entry == Head(entries)
         IN  IF entry.isIntersecting
             THEN animateOnScroll(Tail(entries),
                      [observed |-> st.observed \ {entry.target},
                       class |-> [st.class EXCEPT ![entry.target] = TRUE],
                       runs |-> [st.runs EXCEPT ![entry.target] = @ + 1]])
             ELSE animateOnScroll(Tail(entries), st)

\* after setupScrollAnimations: every element is observed, none revealed
InitReveal ==
    /\ revObserved = Elements
    /\ revClass = [e \in Elements |-> FALSE]
    /\ revInView \in [Elements -> BOOLEAN]
    /\ revReported = [e \in Elements |-> "none"]
    /\ revQueue = <<>>
    /\ revRuns = [e \in Elements |-> 0]

ParkedReveal ==
    /\ revObserved = {}
    /\ revClass = [e \in Elements |-> FALSE]
    /\ revInView = [e \in Elements |-> FALSE]
    /\ revReported = [e \in Elements |-> "none"]
    /\ revQueue = <<>>
    /\ revRuns = [e \in Elements |-> 0]

\* scrolling moves an element into or out of the viewport
RevealMove ==
    /\ \E e \in Elements : revInView' = [revInView EXCEPT ![e] = ~@]
    /\ UNCHANGED <<revObserved, revClass, revReported, revQueue, revRuns>>
    /\ UNCHANGED notReveal

\* what the observer reports for an element
Report(e) == IF revInView[e] THEN "in" ELSE "out"

\* the observed elements whose state differs from the last one queued
Changed == {e \in revObserved : revReported[e] # Report(e)}

\* the entries of a set of elements, in element order
RECURSIVE EntriesOf(_)
EntriesOf(S) ==
    IF S = {} THEN <<>>
    ELSE LET e == CHOOSE x \in S : \A y \in S : x <= y
         IN  <<[target |-> e, isIntersecting |-> revInView[e]]>> \o EntriesOf(S \ {e})

\* the browser updates the rendering and queues the entries of the changes
RevealFrame ==
    /\ Changed # {}
    /\ Len(revQueue) + Cardinality(Changed) <= MaxEntries
    /\ revQueue' = revQueue \o EntriesOf(Changed)
    /\ revReported' = [e \in Elements |-> IF e \in Changed THEN Report(e)
                                          ELSE revReported[e]]
    /\ UNCHANGED <<revObserved, revClass, revInView, revRuns>>
    /\ UNCHANGED notReveal

\* the browser calls the callback with the queued entries
RevealCallback ==
    /\ revQueue # <<>>
    /\ LET st == animateOnScroll(revQueue, [observed |-> revObserved,
                                            class |-> revClass, runs |-> revRuns])
       IN  /\ revObserved' = st.observed
           /\ revClass' = st.class
           /\ revRuns' = st.runs
    /\ revQueue' = <<>>
    /\ UNCHANGED <<revInView, revReported>>
    /\ UNCHANGED notReveal

(***************************************************************************)
(* The specifications, one per controller: the variables of the other      *)
(* controllers stay at a fixed value.                                      *)
(***************************************************************************)
ParkedPage ==
    /\ sections = <<>>
    /\ href = [l \in Links |-> "#blog"]

ParkedScroll ==
    /\ scrollY = 0
    /\ scrollPending = FALSE
    /\ linkActive = [l \in Links |-> FALSE]
    /\ navbarScrolled = FALSE
    /\ btnOpacity = "0"
    /\ btnVisibility = "hidden"
    /\ navInThrottle = FALSE
    /\ topInThrottle = FALSE
    /\ navHandledY = None
    /\ updatedY = 0
    /\ topHandledY = None

\* Navigation's and ScrollToTop's scroll listeners
InitScrollSpec ==
    /\ InitPage
    /\ InitScroll
    /\ ParkedThrottle
    /\ ParkedDebounce
    /\ ParkedMenu
    /\ ParkedForm
    /\ ParkedProbe
    /\ ParkedCounter
    /\ ParkedTheme
    /\ ParkedMail
    /\ ParkedReveal

NextScroll ==
    \/ ScrollMove
    \/ ScrollEvent
    \/ NavThrottleTimer
    \/ TopThrottleTimer

SpecScroll == InitScrollSpec /\ [][NextScroll]_vars

\* one throttled closure, called at arbitrary times
InitThrottleSpec ==
    /\ ParkedPage
    /\ ParkedScroll
    /\ InitThrottle
    /\ ParkedDebounce
    /\ ParkedMenu
    /\ ParkedForm
    /\ ParkedProbe
    /\ ParkedCounter
    /\ ParkedTheme
    /\ ParkedMail
    /\ ParkedReveal

NextThrottle ==
    \/ ThrottleCall
    \/ ThrottleTimer
    \/ ThrottleTick

SpecThrottle == InitThrottleSpec /\ [][NextThrottle]_vars

\* one debounced closure, called at arbitrary times
InitDebounceSpec ==
    /\ ParkedPage
    /\ ParkedScroll
    /\ ParkedThrottle
    /\ InitDebounce
    /\ ParkedMenu
    /\ ParkedForm
    /\ ParkedProbe
    /\ ParkedCounter
    /\ ParkedTheme
    /\ ParkedMail
    /\ ParkedReveal

NextDebounce ==
    \/ DebounceCall
    \/ DebounceTimer
    \/ DebounceTick

SpecDebounce == InitDebounceSpec /\ [][NextDebounce]_vars

\* Navigation's click and resize listeners
InitMenuSpec ==
    /\ InitMenuPage
    /\ ParkedScroll
    /\ ParkedThrottle
    /\ ParkedDebounce
    /\ InitMenu
    /\ ParkedForm
    /\ ParkedProbe
    /\ ParkedCounter
    /\ ParkedTheme
    /\ ParkedMail
    /\ ParkedReveal

NextMenu ==
    \/ ToggleClick
    \/ NavLinkClick
    \/ OutsideClick
    \/ Resize
    \/ ResizeTimer
    \/ MenuTick

SpecMenu == InitMenuSpec /\ [][NextMenu]_vars

\* validateField on one field
InitValidateSpec ==
    /\ ParkedPage
    /\ ParkedScroll
    /\ ParkedThrottle
    /\ ParkedDebounce
    /\ ParkedMenu
    /\ ParkedForm
    /\ InitProbe
    /\ ParkedCounter
    /\ ParkedTheme
    /\ ParkedMail
    /\ ParkedReveal

NextValidate ==
    \/ ProbeBlur
    \/ ProbeInput

SpecValidate == InitValidateSpec /\ [][NextValidate]_vars

\* the contact form
InitFormSpec ==
    /\ ParkedPage
    /\ ParkedScroll
    /\ ParkedThrottle
    /\ ParkedDebounce
    /\ ParkedMenu
    /\ InitForm
    /\ ParkedProbe
    /\ ParkedCounter
    /\ ParkedTheme
    /\ ParkedMail
    /\ ParkedReveal

NextForm ==
    \/ FormInput
    \/ FormBlur
    \/ FormSubmit
    \/ RestoreTimer
    \/ BannerTimer
    \/ FormTick

SpecForm == InitFormSpec /\ [][NextForm]_vars

\* timers run once due, and time passes while a timer is pending
SpecFormFair ==
    /\ SpecForm
    /\ WF_vars(RestoreTimer)
    /\ WF_vars(BannerTimer)
    /\ WF_vars(FormTick)

\* the contact form when submit events are not held back by the disabled button
InitFormReentrantSpec ==
    /\ ParkedPage
    /\ ParkedScroll
    /\ ParkedThrottle
    /\ ParkedDebounce
    /\ ParkedMenu
    /\ InitForm
    /\ ParkedProbe
    /\ ParkedCounter
    /\ ParkedTheme
    /\ ParkedMail
    /\ ParkedReveal

NextFormReentrant ==
    \/ FormInput
    \/ FormBlur
    \/ FormSubmit
    \/ FormResubmit
    \/ RestoreTimer
    \/ BannerTimer
    \/ FormTick

SpecFormReentrant == InitFormReentrantSpec /\ [][NextFormReentrant]_vars

\* the counter animation of one stat element
InitCounterSpec ==
    /\ ParkedPage
    /\ ParkedScroll
    /\ ParkedThrottle
    /\ ParkedDebounce
    /\ ParkedMenu
    /\ ParkedForm
    /\ ParkedProbe
    /\ InitCounter
    /\ ParkedTheme
    /\ ParkedMail
    /\ ParkedReveal

NextCounter ==
    \/ StatVisible
    \/ CounterTick

SpecCounter == InitCounterSpec /\ [][NextCounter]_vars

\* timers run once due, and time passes while a timer is pending
SpecCounterFair ==
    /\ SpecCounter
    /\ WF_vars(CounterTick)

\* the theme over page loads and toggles
InitThemeSpec ==
    /\ ParkedPage
    /\ ParkedScroll
    /\ ParkedThrottle
    /\ ParkedDebounce
    /\ ParkedMenu
    /\ ParkedForm
    /\ ParkedProbe
    /\ ParkedCounter
    /\ InitTheme
    /\ ParkedMail
    /\ ParkedReveal

NextTheme ==
    \/ ToggleTheme
    \/ ThemeReload

SpecTheme == InitThemeSpec /\ [][NextTheme]_vars

\* the mailto link of sendEmail
InitMailSpec ==
    /\ ParkedPage
    /\ ParkedScroll
    /\ ParkedThrottle
    /\ ParkedDebounce
    /\ ParkedMenu
    /\ ParkedForm
    /\ ParkedProbe
    /\ ParkedCounter
    /\ ParkedTheme
    /\ InitMail
    /\ ParkedReveal

NextMail ==
    \/ MailSend
    \/ MailEdit

SpecMail == InitMailSpec /\ [][NextMail]_vars

\* the shared visibility observer
InitRevealSpec ==
    /\ ParkedPage
    /\ ParkedScroll
    /\ ParkedThrottle
    /\ ParkedDebounce
    /\ ParkedMenu
    /\ ParkedForm
    /\ ParkedProbe
    /\ ParkedCounter
    /\ ParkedTheme
    /\ ParkedMail
    /\ InitReveal

NextReveal ==
    \/ RevealMove
    \/ RevealFrame
    \/ RevealCallback

SpecReveal == InitRevealSpec /\ [][NextReveal]_vars

(***************************************************************************)
(* Claims about the active link.                                           *)
(***************************************************************************)
\* the sections, by index, whose span contains updatedY + 100
Matching == {i \in 1..Len(sections) : SectionMatches(sections[i], updatedY)}
ActiveLinks == {l \in Links : linkActive[l]}
LinksOf(i) == {l \in Links : href[l] = "#" \o sections[i].id}
FirstOf(S) == CHOOSE i \in S : \A j \in S : i <= j
LastOf(S) == CHOOSE i \in S : \A j \in S : j <= i

\* C1 as stated: after construction and after every run of updateActiveLink,
\* exactly one link is active and it is the link of the one section whose
\* span contains scrollY + 100.
C1_ExactlyOneActive ==
    /\ Cardinality(ActiveLinks) = 1
    /\ Cardinality(Matching) = 1
    /\ \A i \in Matching : ActiveLinks = LinksOf(i)

\* C1 amended: whenever some section's span contains scrollY + 100 at the
\* last run of updateActiveLink, the active links are exactly the links whose
\* href is '#' + id of the last such section in document order; so exactly
\* one link is active when exactly one link points at that section.
C1_ActiveIsLinkOfMatch ==
    Matching # {} =>
        /\ ActiveLinks = LinksOf(LastOf(Matching))
        /\ (Cardinality(LinksOf(LastOf(Matching))) = 1 => Cardinality(ActiveLinks) = 1)

C1_Witness ==
    /\ navHandledY # None
    /\ Cardinality(Matching) = 1
    /\ Cardinality(ActiveLinks) = 1
    /\ \E l \in Links : linkActive[l] /\ href[l] = "#about"

\* C2 as stated: when two or more sections contain scrollY + 100, the links
\* of the first such section in document order are the active ones.
C2_FirstMatchWins ==
    Cardinality(Matching) >= 2 => ActiveLinks = LinksOf(FirstOf(Matching))

\* C2 amended: when two or more sections contain scrollY + 100, the links of
\* the last such section in document order are the active ones.
C2_LastMatchWins ==
    Cardinality(Matching) >= 2 => ActiveLinks = LinksOf(LastOf(Matching))

C2_Witness ==
    /\ navHandledY # None
    /\ Cardinality(Matching) >= 2
    /\ LinksOf(FirstOf(Matching)) # {}
    /\ LinksOf(LastOf(Matching)) # {}
    /\ ActiveLinks = LinksOf(LastOf(Matching))

(***************************************************************************)
(* Claims about the scroll thresholds.                                     *)
(***************************************************************************)
ButtonVisible == btnOpacity = "1" /\ btnVisibility = "visible"
ButtonHidden == btnOpacity = "0" /\ btnVisibility = "hidden"

\* C10: after each run of the scroll handlers at offset y the nav bar has
\* 'scrolled' iff y > 50 and the scroll-to-top button is visible iff y > 300,
\* hidden otherwise, both thresholds strict.
C10_Thresholds ==
    /\ navHandledY # None => (navbarScrolled <=> navHandledY > 50)
    /\ topHandledY # None =>
          /\ (ButtonVisible <=> topHandledY > 300)
          /\ (ButtonHidden <=> topHandledY <= 300)

\* scrollY jumped from 0 to 400 and both handlers ran there
C10_Witness ==
    /\ navHandledY = 400
    /\ topHandledY = 400
    /\ navbarScrolled
    /\ ButtonVisible

(***************************************************************************)
(* Claims about throttle and debounce.                                     *)
(***************************************************************************)
RanArgs(log) == [k \in 1..Len(SelectSeq(log, LAMBDA c : c.ran)) |->
                    SelectSeq(log, LAMBDA c : c.ran)[k].arg]
RunArgs(runs) == [k \in 1..Len(runs) |-> runs[k].arg]

\* C3: the first call of a throttled function runs func at once; a call made
\* less than limit after a run of func is dropped; func runs only inside a
\* call, with that call's arguments; two runs are never less than limit apart.
C3_Throttle ==
    /\ thrLog # <<>> => thrLog[1].ran
    /\ \A i \in 1..Len(thrLog) : thrLog[i].since < thrLimit => ~thrLog[i].ran
    /\ \A k \in 2..Len(thrRuns) : thrRuns[k].gap >= thrLimit
    /\ RunArgs(thrRuns) = RanArgs(thrLog)

\* three calls: the second inside the window of the first and dropped, the
\* third after the window and run
C3_Witness ==
    /\ Len(thrLog) = 3
    /\ thrLog[2].since < thrLimit
    /\ ~thrLog[2].ran
    /\ thrLog[3].ran
    /\ Len(thrRuns) = 2

\* every gap between consecutive calls is shorter than wait
Burst == debLog # <<>> /\ \A i \in 2..Len(debLog) : debLog[i].gap < debWait

\* C4: a debounced function called with every gap shorter than wait does not
\* run func while a timer is pending, and has run it exactly once when none
\* is: with the arguments of the last call, a full wait after that call.
C4_Debounce ==
    Burst =>
        /\ Len(debRuns) <= 1
        /\ debTimers # {} => debRuns = <<>>
        /\ debTimers = {} => Len(debRuns) = 1
        /\ \A k \in 1..Len(debRuns) :
               /\ debRuns[k].arg = debLog[Len(debLog)].arg
               /\ debRuns[k].waited >= debWait

C4_Witness ==
    /\ Burst
    /\ Len(debLog) = 3
    /\ debLog[1].arg # debLog[3].arg
    /\ Len(debRuns) = 1

(***************************************************************************)
(* Claims about the mobile menu.                                           *)
(***************************************************************************)
MenuInSync ==
    /\ menuActive <=> hamburgerActive
    /\ menuActive <=> bodyOverflow = "hidden"
    /\ ~menuActive <=> bodyOverflow = ""

ToggleFlipsAll ==
    ToggleClick =>
        /\ menuActive' = ~menuActive
        /\ hamburgerActive' = ~hamburgerActive
        /\ (bodyOverflow' = "hidden") = ~(bodyOverflow = "hidden")

\* C9: in every state reached by toggle clicks, nav-link clicks, outside
\* clicks and resize callbacks, the menu is active iff the hamburger is active
\* iff body overflow is 'hidden'; a toggle click flips all three together.
C9_MenuInSync == []MenuInSync /\ [][ToggleFlipsAll]_vars

\* the menu is open, the page locked, and a resize callback is pending
C9_Witness ==
    /\ menuActive
    /\ hamburgerActive
    /\ bodyOverflow = "hidden"
    /\ resizeTimers # {}
    /\ scrollRequest # None

(***************************************************************************)
(* Claims about field validation.                                          *)
(***************************************************************************)
NoSpaceNoAt(s) == \A i \in 1..Len(s) : s[i] # " " /\ s[i] # "@"

\* local@domain.tld: three non-empty parts free of whitespace and '@'
EmailShape(s) ==
    \E i, j \in 1..Len(s) :
        /\ 1 < i /\ i + 1 < j /\ j < Len(s)
        /\ s[i] = "@" /\ s[j] = "."
        /\ NoSpaceNoAt(SubSeq(s, 1, i - 1))
        /\ NoSpaceNoAt(SubSeq(s, i + 1, j - 1))
        /\ NoSpaceNoAt(SubSeq(s, j + 1, Len(s)))

\* the value without its leading and trailing whitespace
Trimmed(s) ==
    LET keep == {i \in 1..Len(s) : s[i] # " "}
    IN  IF keep = {} THEN <<>>
        ELSE SubSeq(s, CHOOSE i \in keep : \A j \in keep : i <= j,
                       CHOOSE i \in keep : \A j \in keep : j <= i)

\* what C6 expects of a field: "" when it is valid, else the message
Expected(type, value) ==
    IF Trimmed(value) = <<>> THEN RequiredMessage
    ELSE IF type = "email" /\ ~EmailShape(Trimmed(value)) THEN EmailMessage
    ELSE ""

\* C6: validateField returns false with 'This field is required' for an empty
\* trimmed value; for an email field with a non-empty trimmed value it returns
\* true iff the value has the shape local@domain.tld, else false with 'Please
\* enter a valid email address'; for other fields it returns true.  A valid
\* field is left with no error displayed, an invalid one with its error.
C6_ValidateField ==
    probeResult # <<>> =>
        /\ probeResult[1] = (Expected(probe.type, probe.value) = "")
        /\ probeResult[1] => ~probe.error /\ probe.els = <<>>
        /\ ~probeResult[1] =>
               probe.error /\ probe.els = <<Expected(probe.type, probe.value)>>

\* an email field holding a@a.a, validated and found valid
C6_Witness ==
    /\ probeResult = <<TRUE>>
    /\ probe.type = "email"
    /\ Len(probe.value) = 5
    /\ EmailShape(probe.value)


(***************************************************************************)
(* Claims about form submission.                                           *)
(***************************************************************************)
FieldValid(f) == Expected(FieldType[f], fieldValue[f]) = ""
AllEmpty == \A f \in FieldNames : fieldValue[f] = <<>>
RestoreTimers == {t \in formTimers : t.arg.kind = "restore"}
BannerTimers == {t \in formTimers : t.arg.kind = "banner"}

SubmitGate ==
    submits' = submits + 1 =>
        IF \A f \in FieldNames : FieldValid(f)
        THEN /\ btnDisabled'
             /\ Len(location') = Len(location) + 1
             /\ \E t \in formTimers' \ formTimers : t.arg.kind = "restore"
        ELSE /\ location' = location
             /\ btnLabel' = btnLabel
             /\ btnDisabled' = btnDisabled
             /\ fieldValue' = fieldValue
             /\ formTimers' = formTimers
             /\ banners' = banners
             /\ \A f \in FieldNames :
                    IF FieldValid(f)
                    THEN ~fieldError'[f] /\ fieldErrorEls'[f] = <<>>
                    ELSE /\ fieldError'[f]
                         /\ fieldErrorEls'[f] =
                                <<Expected(FieldType[f], fieldValue[f])>>

\* C5: a submit event leads to sendEmail (button disabled, mailto navigation,
\* restore timer set) only if every field is valid; if a field is invalid
\* there is no navigation, the button keeps its label and state, the form is
\* not reset, and every invalid field shows its error.
C5_SubmitGate == [][SubmitGate]_vars

\* a submit with the name empty and the email malformed was refused, and
\* both fields show their error
C5_Witness ==
    /\ submits = 1
    /\ location = <<>>
    /\ ~btnDisabled
    /\ fieldValue["email"] = <<"a">>
    /\ fieldErrorEls["name"] = <<RequiredMessage>>
    /\ fieldErrorEls["email"] = <<EmailMessage>>
    /\ fieldErrorEls["message"] = <<RequiredMessage>>

\* C8 as stated, its last sentence: every valid submission eventually reaches
\* a state with the button enabled, the fields empty and no success banner.
C8_EventuallyClean == btnDisabled ~> (~btnDisabled /\ AllEmpty /\ banners = {})

SubmissionOrder ==
    /\ btnDisabled <=> RestoreTimers # {}
    /\ btnLabel = IF btnDisabled THEN SendingLabel ELSE MarkupLabel
    /\ \A b \in banners : \E t \in BannerTimers : t.arg.banner = b
    /\ \A e \in formLog :
           /\ e.event = "restore" => e.after >= 1000
           /\ e.event = "remove" => e.after >= 5000

SubmissionSteps ==
    /\ Len(location') > Len(location) =>
           /\ btnDisabled' /\ btnLabel' = SendingLabel
           /\ \E t \in RestoreTimers' : t.remaining = 1000
    /\ btnDisabled /\ ~btnDisabled' =>
           /\ btnLabel' = MarkupLabel
           /\ AllEmpty'
           /\ \E b \in banners' \ banners :
                  \E t \in BannerTimers' : t.arg.banner = b /\ t.remaining = 5000

\* C8 amended: a valid submission disables the button with the sending label
\* and navigates to the mailto URI; no earlier than 1000 ms later the button
\* is enabled with its label, the form reset and a banner appended; no
\* earlier than 5000 ms after that the banner is removed.  Every valid
\* submission eventually reaches a state with the button enabled and the
\* fields empty, and every banner is eventually removed (the fields need not
\* be empty by then).
C8_Lifecycle ==
    /\ []SubmissionOrder
    /\ [][SubmissionSteps]_vars
    /\ btnDisabled ~> (~btnDisabled /\ AllEmpty /\ btnLabel = MarkupLabel)
    /\ \A b \in 1..MaxSubmits : (b \in banners) ~> (b \notin banners)

\* a submission went through: restored after 1000 ms, banner removed after
\* 5000 ms more
C8_Witness ==
    /\ Len(location) = 1
    /\ formLog = {[event |-> "restore", after |-> 1000],
                  [event |-> "remove", after |-> 5000]}
    /\ ~btnDisabled
    /\ banners = {}
    /\ formTimers = {}

(***************************************************************************)
(* Claims about overlapping submissions.                                   *)
(***************************************************************************)
\* C20: for any sequence of valid submissions, also when one is handled
\* while the restore timer of an earlier one is pending, once all timers
\* have fired the submit button is enabled and shows the label it had before
\* the submissions, and no success banner remains in the form.
C20_ButtonRestored ==
    formTimers = {} =>
        /\ ~btnDisabled
        /\ btnLabel = MarkupLabel
        /\ banners = {}

(***************************************************************************)
(* Claims about the counter animation.                                     *)
(***************************************************************************)
CounterFinished ==
    /\ counterTarget # None
    /\ \A i \in 1..Len(counterRunning) : ~counterRunning[i]

\* C7: when a counter animation finishes, the element shows the target,
\* followed by '+' when the target exceeds 10 or equals 3 and bare
\* otherwise: 3 ends '3+', 10 ends '10', 25 ends '25+'.
C7_FinalSuffix ==
    CounterFinished =>
        statText = [value |-> counterTarget,
                    plus |-> (counterTarget > 10 \/ counterTarget = 3)]

(***************************************************************************)
(* Claims about the run of the counter animation.                          *)
(***************************************************************************)
\* the callbacks run by the interval set first, which is never behind
TicksShown == IF counterTicks = <<>> THEN 0 ELSE counterTicks[1]
Exact(k) == (k * counterTarget) \div Steps
Whole(k) == (k * counterTarget) % Steps = 0
\* an intermediate value is on display
Intermediate == TicksShown >= 1 /\ ~CounterFinished /\ counterRunning[1]

\* C19 as stated: the animation is started at most once, the final value is
\* written and the interval cleared after at most 60 ticks plus one, and
\* every intermediate value shown is floor(k * target / 60), below the target.
C19_CounterExact ==
    /\ Len(counterTicks) <= 1
    /\ \A i \in 1..Len(counterTicks) : counterTicks[i] <= Steps + 1
    /\ Intermediate =>
           /\ statText.value = Exact(TicksShown)
           /\ statText.value < counterTarget

CounterBounds ==
    /\ statObserved <=> counterTarget = None
    /\ \A i \in 1..Len(counterTicks) :
           /\ counterTicks[i] <= Steps + 1
           /\ ~counterRunning[i] => counterTicks[i] >= 1
    /\ Intermediate =>
           /\ statText.value \in
                  {Exact(TicksShown)} \cup
                  (IF Whole(TicksShown) THEN {Exact(TicksShown) - 1} ELSE {})
           /\ statText.value >= 0
           /\ statText.value < counterTarget
    /\ CounterFinished => statText.value = counterTarget

CounterSteps ==
    /\ Len(counterTicks') # Len(counterTicks) => statObserved /\ ~statObserved'
    /\ \A i \in 1..Len(counterTicks) :
           /\ ~counterRunning[i] =>
                  counterTicks'[i] = counterTicks[i] /\ ~counterRunning'[i]
           /\ counterTicks'[i] \in {counterTicks[i], counterTicks[i] + 1}
    /\ TicksShown >= 1 => statText'.value >= statText.value

\* C19 amended: the animation is started only by the callback that first
\* reports the element intersecting, once for every intersecting entry in
\* that call; every interval writes the final value and is cleared after at
\* most 60 ticks plus one and never ticks again; every intermediate value
\* shown is below the target, never decreases and is floor(k * target / 60),
\* or one less when k * target / 60 is a whole number; a started animation
\* finishes.
C19_CounterRuns ==
    /\ []CounterBounds
    /\ [][CounterSteps]_vars
    /\ (counterTarget # None) ~> CounterFinished

\* target 10 has finished at 10 after 61 ticks of its one interval
C19_Witness ==
    /\ counterTarget = 10
    /\ counterTicks = <<Steps + 1>>
    /\ CounterFinished
    /\ statText.value = 10

\* target 10 shows 0 after six ticks, where 6 * 10 / 60 is 1
C19_WitnessRounded ==
    /\ counterTarget = 10
    /\ counterTicks = <<6>>
    /\ statText.value = 0

(***************************************************************************)
(* Claims about the theme.                                                 *)
(***************************************************************************)
ThemesAgree == themeStored = <<currentTheme>> /\ dataTheme = currentTheme

Constructions == {i \in 1..Len(themeLog) : themeLog[i].op = "construct"}
\* the indices of a toggle that follows a toggle
SecondToggles ==
    {i \in 3..Len(themeLog) : themeLog[i].op = "toggle" /\ themeLog[i - 1].op = "toggle"}

\* C11 as stated: the persisted value, data-theme and currentTheme are equal;
\* construction with no persisted value yields 'light', with a persisted
\* value that same value; two toggles restore the starting theme.
C11_ThemeRoundTrip ==
    /\ ThemesAgree
    /\ \A i \in Constructions :
           themeLog[i].theme = IF themeLog[i].item = <<>> THEN "light"
                               ELSE themeLog[i].item[1]
    /\ \A i \in SecondToggles : themeLog[i].theme = themeLog[i - 2].theme

\* C11 amended: the persisted value, data-theme and currentTheme are equal;
\* construction with no persisted value or an empty one yields 'light', with
\* any other persisted value that same value, and a construction that follows
\* another construction or a toggle changes nothing; toggleTheme turns
\* 'light' into 'dark' and every other theme into 'light', so two toggles
\* restore a starting theme of 'light' or 'dark'.
C11_ThemeAgreement ==
    /\ ThemesAgree
    /\ \A i \in Constructions :
           /\ themeLog[i].theme = IF themeLog[i].item \in {<<>>, <<"">>} THEN "light"
                                  ELSE themeLog[i].item[1]
           /\ i > 1 => /\ themeLog[i].theme = themeLog[i - 1].theme
                       /\ themeLog[i].item = <<themeLog[i - 1].theme>>
    /\ \A i \in 2..Len(themeLog) :
           themeLog[i].op = "toggle" =>
               themeLog[i].theme = IF themeLog[i - 1].theme = "light" THEN "dark"
                                   ELSE "light"
    /\ \A i \in SecondToggles :
           themeLog[i - 2].theme \in {"light", "dark"} =>
               themeLog[i].theme = themeLog[i - 2].theme

\* dark was persisted, the page toggled twice and was loaded again
C11_Witness ==
    /\ Len(themeLog) = 4
    /\ themeLog[1].item = <<"dark">>
    /\ themeLog[2].op = "toggle"
    /\ themeLog[3].op = "toggle"
    /\ themeLog[4].op = "construct"
    /\ currentTheme = "dark"

\* C12: for any initial content of the persisted 'theme' key, in every state
\* after construction and after any toggles, currentTheme, the persisted
\* value and the data-theme attribute are 'light' or 'dark'.
C12_ThemeLightOrDark ==
    /\ currentTheme \in {"light", "dark"}
    /\ themeStored \in {<<"light">>, <<"dark">>}
    /\ dataTheme \in {"light", "dark"}

(***************************************************************************)
(* Claims about the mailto link.                                           *)
(***************************************************************************)
\* the first position of character c in s, Len(s) + 1 if there is none
RECURSIVE IndexOf(_, _, _)
IndexOf(s, c, i) ==
    IF i > Len(s) \/ s[i] = c THEN i ELSE IndexOf(s, c, i + 1)

Starts(s, prefix) == Len(s) >= Len(prefix) /\ SubSeq(s, 1, Len(prefix)) = prefix
After(s, prefix) == SubSeq(s, Len(prefix) + 1, Len(s))

\* s is made of unreserved characters and of escapes %XX of known characters
RECURSIVE IsPercentEncoded(_)
IsPercentEncoded(s) ==
    IF s = <<>> THEN TRUE
    ELSE IF Head(s) = "%"
         THEN /\ Len(s) >= 3
              /\ \E c \in DOMAIN PercentCode : PercentCode[c] = SubSeq(s, 1, 3)
              /\ IsPercentEncoded(SubSeq(s, 4, Len(s)))
         ELSE Head(s) \in Unreserved /\ IsPercentEncoded(Tail(s))

\* decodeURIComponent on a percent-encoded string
RECURSIVE PercentDecode(_)
PercentDecode(s) ==
    IF s = <<>> THEN <<>>
    ELSE IF Head(s) = "%"
         THEN <<CHOOSE c \in DOMAIN PercentCode : PercentCode[c] = SubSeq(s, 1, 3)>>
              \o PercentDecode(SubSeq(s, 4, Len(s)))
         ELSE <<Head(s)>> \o PercentDecode(Tail(s))

\* a mailto URI read as a mail client reads it: the address up to '?', then
\* the header fields, separated by '&', each name=value
ParsedLink(link) ==
    LET rest == After(link, MailtoScheme)
        q == IndexOf(rest, "?", 1)
        query == SubSeq(rest, q + 1, Len(rest))
        amp == IndexOf(query, "&", 1)
        first == SubSeq(query, 1, amp - 1)
        second == SubSeq(query, amp + 1, Len(query))
    IN  [to |-> SubSeq(rest, 1, q - 1),
         subject |-> After(first, After(SubjectKey, <<"?">>)),
         body |-> After(second, After(BodyKey, <<"&">>)),
         wellFormed |-> /\ Starts(link, MailtoScheme)
                        /\ Starts(first, After(SubjectKey, <<"?">>))
                        /\ Starts(second, After(BodyKey, <<"&">>))]

\* C13: sendEmail navigates to mailto:saikumarpolavaram@outlook.com with
\* subject=S and body=B, where S is the percent-encoding of 'Portfolio
\* Contact: ' + subject and B the percent-encoding of a body that holds the
\* name, email, subject and message values once each, in the template order
\* Name, Email, Subject, Message.
C13_MailtoLink ==
    mailHref # <<>> =>
        LET p == ParsedLink(mailHref[1])
        IN  /\ p.wellFormed
            /\ p.to = RecipientChars
            /\ IsPercentEncoded(p.subject)
            /\ PercentDecode(p.subject) = SubjectPrefix \o mailData.subject
            /\ IsPercentEncoded(p.body)
            /\ PercentDecode(p.body) =
                   NameLabel \o mailData.name \o EmailLabel \o mailData.email
                   \o SubjectLabel \o mailData.subject \o MessageLabel
                   \o mailData.message \o BodyTail

\* the link of name 'A', email 'a@b.com', subject 'Hi', message 'Test'
C13_Witness ==
    /\ mailHref # <<>>
    /\ mailData = [name |-> <<"A">>,
                   email |-> <<"a", "@", "b", ".", "c", "o", "m">>,
                   subject |-> <<"H", "i">>,
                   message |-> <<"T", "e", "s", "t">>]

\* a link whose values hold '&', '=', '%' and a line break
C13_WitnessReserved ==
    /\ mailHref # <<>>
    /\ mailData.subject = <<"a", "&", "b", "=", "c">>
    /\ mailData.message = <<"5", "0", "%", " ", "+", "?", "#", "\n">>

(***************************************************************************)
(* Claims about the scroll listeners at rest.                              *)
(***************************************************************************)
\* the sections, by index, whose span contains the current scrollY + 100
MatchingNow == {i \in 1..Len(sections) : SectionMatches(sections[i], scrollY)}

\* every scroll event has been delivered, both handlers have run at least
\* once and no throttle timer is pending
ScrollAtRest ==
    /\ ~scrollPending
    /\ ~navInThrottle
    /\ ~topInThrottle
    /\ navHandledY # None
    /\ topHandledY # None

\* C14: once the last scroll event has been delivered and no throttle timer
\* is pending, the scroll-to-top button is visible iff the current scrollY is
\* above 300, the nav bar has 'scrolled' iff it is above 50, and the active
\* links are those of the section that contains the current scrollY + 100.
C14_TracksScroll ==
    ScrollAtRest =>
        /\ ButtonVisible <=> scrollY > 300
        /\ navbarScrolled <=> scrollY > 50
        /\ \A i \in MatchingNow :
               Cardinality(MatchingNow) = 1 => ActiveLinks = LinksOf(i)

(***************************************************************************)
(* Claims about updateActiveLink as a function of the link states.         *)
(***************************************************************************)
LinkStates == [Links -> BOOLEAN]

\* at the current layout and offset, whatever the links' states
NoMatchKeepsLinks ==
    MatchingNow = {} =>
        \A active \in LinkStates :
            updateActiveLink(sections, href, scrollY, active) = active

RunTwiceIsRunOnce ==
    \A active \in LinkStates :
        LET once == updateActiveLink(sections, href, scrollY, active)
        IN  updateActiveLink(sections, href, scrollY, once) = once

\* a step in which the throttled listener of lines 76-79 ran its function
NavListenerRan == ~navInThrottle /\ navInThrottle'

NoMatchStepKeepsLinks ==
    NavListenerRan /\ MatchingNow = {} => linkActive' = linkActive

\* C15: when updateActiveLink runs and no section's span contains
\* scrollY + 100, every link keeps its 'active' state; and running it twice
\* at the same offset and layout gives the link states of running it once.
C15_NoMatchIdempotent ==
    /\ []NoMatchKeepsLinks
    /\ []RunTwiceIsRunOnce
    /\ [][NoMatchStepKeepsLinks]_vars

\* updateActiveLink has run at an offset no section contains, and the link
\* made active at an earlier offset is still active
C15_Witness ==
    /\ navHandledY # None
    /\ updatedY = scrollY
    /\ MatchingNow = {}
    /\ navInThrottle
    /\ ActiveLinks # {}
    /\ \E i \in 1..Len(sections) : ActiveLinks = LinksOf(i)

(***************************************************************************)
(* Claims about nav-link clicks.                                           *)
(***************************************************************************)
\* the sections an href points at
TargetsOf(h) == {i \in 1..Len(sections) : h = "#" \o sections[i].id}

NavClickCloses ==
    NavLinkClick =>
        LET click == navClick'[1]
        IN  /\ ~menuActive'
            /\ ~hamburgerActive'
            /\ bodyOverflow' = ""
            /\ ~click.threw
            /\ click.scrollTo # {} <=> TargetsOf(click.href) # {}
            /\ \A top \in click.scrollTo :
                   /\ \E i \in TargetsOf(click.href) : top = sections[i].offsetTop - 80
                   /\ scrollRequest' = top

\* C16: a nav-link click always ends with the menu and the hamburger not
\* active and body overflow cleared, whatever the menu was and whether or not
\* the link's target exists; a scroll to target.offsetTop - 80 is requested
\* iff the href matches an element, and no error is raised.
C16_NavClickCloses == [][NavClickCloses]_vars

(***************************************************************************)
(* Claims about the debounced resize listener.                             *)
(***************************************************************************)
MenuUnchanged ==
    /\ menuActive' = menuActive
    /\ hamburgerActive' = hamburgerActive
    /\ bodyOverflow' = bodyOverflow

\* a step that is a resize event, and one that is a run of the callback
ResizeEvent == sinceResize' = 0 /\ resizeTimeout' # resizeTimeout
CallbackRun == Len(resizeRuns') = Len(resizeRuns) + 1

ResizeBurstSteps ==
    /\ ResizeEvent => MenuUnchanged
    /\ CallbackRun =>
           /\ sinceResize >= ResizeWait
           /\ resizeRuns = <<>>
           /\ IF innerWidth > 768
              THEN ~menuActive' /\ ~hamburgerActive' /\ bodyOverflow' = ""
              ELSE MenuUnchanged

OneCallbackPerBurst ==
    /\ Len(resizeRuns) <= 1
    /\ Cardinality(resizeTimers) <= 1
    /\ resizeTimers # {} => resizeRuns = <<>>
    /\ \A k \in 1..Len(resizeRuns) : resizeRuns[k].after >= ResizeWait

\* C17: a burst of resize events runs the callback at most once, no earlier
\* than 250 ms after the last resize event of the burst; the callback closes
\* the menu only if the width then exceeds 768 and leaves the menu as it is
\* otherwise; a resize event itself leaves the menu as it is, so an open menu
\* stays open until the callback.
C17_ResizeDebounced == []OneCallbackPerBurst /\ [][ResizeBurstSteps]_vars

\* the callback found the menu open at width 1024 and closed it
C17_Witness ==
    /\ resizeRuns = <<[width |-> 1024, open |-> TRUE, after |-> ResizeWait]>>
    /\ ~menuActive
    /\ bodyOverflow = ""
    /\ navClick = <<>>

\* the callback found the menu open at width 768 and left it open
C17_WitnessNarrow ==
    /\ resizeRuns = <<[width |-> 768, open |-> TRUE, after |-> ResizeWait]>>
    /\ menuActive
    /\ bodyOverflow = "hidden"

(***************************************************************************)
(* Claims about the visibility observer.                                   *)
(***************************************************************************)
\* the elements with an intersecting entry in the queue
Intersecting == {revQueue[i].target : i \in {j \in 1..Len(revQueue) :
                                                revQueue[j].isIntersecting}}
CallbackStep == revQueue # <<>> /\ revQueue' = <<>>

RevealedOnce ==
    \A e \in Elements :
        /\ revClass[e] <=> e \notin revObserved
        /\ revClass[e] <=> revRuns[e] >= 1

RevealSteps ==
    \A e \in Elements :
        /\ revClass[e] => revClass'[e]
        /\ CallbackStep /\ e \in Intersecting =>
               revClass'[e] /\ e \notin revObserved'
        /\ ~(CallbackStep /\ e \in Intersecting) =>
               /\ revClass'[e] = revClass[e]
               /\ (e \in revObserved') = (e \in revObserved)
               /\ revRuns'[e] = revRuns[e]

\* C18 as stated: an element gets the class the first time it is reported
\* intersecting and is unobserved in the same step, the class is never
\* removed, other reports change nothing, and the callback body of an
\* element never runs more than once.
C18_OneShot ==
    /\ RevealedOnce
    /\ \A e \in Elements : revRuns[e] <= 1

\* C18 amended: an element gets the class in the first callback that holds
\* an intersecting entry of it and is unobserved in the same step, the class
\* is never removed and other reports change nothing; the callback body of
\* an element runs in that one callback only, once for every intersecting
\* entry of the element queued before it, and never in a later callback.
C18_OneShotPerCallback ==
    /\ []RevealedOnce
    /\ [][RevealSteps]_vars
    /\ [][\A e \in Elements : revRuns'[e] > revRuns[e] => revRuns[e] = 0]_vars
    /\ [](\A i \in 1..Len(revQueue) :
              revQueue[i].target \in revObserved \/ revRuns[revQueue[i].target] = 0)

\* element 1 was reported intersecting once, revealed and unobserved;
\* element 2 has only been reported outside and is still observed
C18_Witness ==
    /\ revClass[1]
    /\ 1 \notin revObserved
    /\ revRuns[1] = 1
    /\ revInView[1]
    /\ revReported[2] = "out"
    /\ ~revClass[2]
    /\ 2 \in revObserved
    /\ revQueue = <<>>

(***************************************************************************)
(* Claims about the error display of the form's fields.                    *)
(***************************************************************************)
\* the 'error' class and the error elements of a field go together
ErrorDisplay(f) ==
    /\ Len(fieldErrorEls[f]) <= 1
    /\ fieldError[f] <=> Len(fieldErrorEls[f]) = 1

\* a blur leaves one field as validateField finds it, the others as they were
BlurStep ==
    FormBlur =>
        \E f \in FieldNames :
            /\ IF FieldValid(f)
               THEN ~fieldError'[f] /\ fieldErrorEls'[f] = <<>>
               ELSE /\ fieldError'[f]
                    /\ fieldErrorEls'[f] = <<Expected(FieldType[f], fieldValue[f])>>
            /\ \A g \in FieldNames \ {f} :
                   /\ fieldError'[g] = fieldError[g]
                   /\ fieldErrorEls'[g] = fieldErrorEls[g]

\* an input event clears the edited field's error whatever its new value
\* is, and touches no other field
InputStep ==
    FormInput =>
        \A f \in FieldNames :
            IF fieldValue'[f] # fieldValue[f]
            THEN ~fieldError'[f] /\ fieldErrorEls'[f] = <<>>
            ELSE /\ fieldError'[f] = fieldError[f]
                 /\ fieldErrorEls'[f] = fieldErrorEls[f]

\* C21: in every reachable state of the contact form, under any sequence of
\* blur, input and submit events, each field has the 'error' class iff
\* exactly one field-error element is displayed for it, and never two; a
\* blur sets this state from validateField, and an input event on a field
\* leaves that field with no error class and no error element, without
\* re-validating it.
C21_ErrorDisplay ==
    /\ [](\A f \in FieldNames : ErrorDisplay(f))
    /\ [][BlurStep]_vars
    /\ [][InputStep]_vars

\* two submissions were refused, so the name and the email were found
\* invalid at least twice: each shows one error element; the subject was
\* edited to an empty value after its error and shows none
C21_Witness ==
    /\ submits = 2
    /\ location = <<>>
    /\ fieldValue["email"] = <<"a">>
    /\ fieldError["name"] /\ fieldErrorEls["name"] = <<RequiredMessage>>
    /\ fieldError["email"] /\ fieldErrorEls["email"] = <<EmailMessage>>
    /\ fieldValue["subject"] = <<>>
    /\ ~fieldError["subject"] /\ fieldErrorEls["subject"] = <<>>
====
